---- MODULE Spec2Model ----
(***************************************************************************)
(* Model of src/system/databaseManager/MongoDB.js (class MongoManager):    *)
(* the connection-string derivation done by the constructor and the        *)
(* lifecycle wrapper around the native driver's client.                    *)
(*                                                                         *)
(* Strings are sequences of one-character strings, so that concatenation,  *)
(* percent-encoding and substring tests are computed, not assumed.         *)
(***************************************************************************)
EXTENDS Integers, Sequences, FiniteSets, TLC

(***************************************************************************)
(* Bounds of the model.                                                    *)
(***************************************************************************)
MaxOptKeys == 2
MaxClients == 3
MaxCloseCalls == 2

(***************************************************************************)
(* JavaScript values that reach the constructor.                           *)
(***************************************************************************)
Undef == [kind |-> "undefined", s |-> <<>>, b |-> FALSE]
Str(x) == [kind |-> "string", s |-> x, b |-> FALSE]
Bool(v) == [kind |-> "boolean", s |-> <<>>, b |-> v]

\* JavaScript truthiness of a value (conditions at lines 45, 63, 68, 73, 82).
Truthy(v) ==
    \/ v.kind = "string" /\ v.s # <<>>
    \/ v.kind = "boolean" /\ v.b

\* The string a value turns into under the + operator of a string.
JsToString(v) ==
    CASE v.kind = "string" -> v.s
      [] v.kind = "boolean" -> IF v.b THEN <<"t","r","u","e">> ELSE <<"f","a","l","s","e">>
      [] OTHER -> <<"u","n","d","e","f","i","n","e","d">>

\* An object literal: absent, or its entries in insertion order (Object.keys order).
NoObject == [present |-> FALSE, entries |-> <<>>]
Object(es) == [present |-> TRUE, entries |-> es]

(***************************************************************************)
(* encodeURIComponent, character by character.                             *)
(***************************************************************************)
EncodeChar(c) ==
    CASE c = "@" -> <<"%","4","0">>
      [] c = "/" -> <<"%","2","F">>
      [] c = ":" -> <<"%","3","A">>
      [] c = "=" -> <<"%","3","D">>
      [] c = "&" -> <<"%","2","6">>
      [] c = "?" -> <<"%","3","F">>
      [] c = "%" -> <<"%","2","5">>
      [] c = "+" -> <<"%","2","B">>
      [] OTHER -> <<c>>

RECURSIVE encodeURIComponent(_)
encodeURIComponent(s) ==
    IF s = <<>> THEN <<>> ELSE EncodeChar(Head(s)) \o encodeURIComponent(Tail(s))

(***************************************************************************)
(* String helpers used by the properties.                                  *)
(***************************************************************************)
IsPrefixAt(sub, s, i) ==
    /\ i + Len(sub) - 1 <= Len(s)
    /\ \A k \in 1..Len(sub) : s[i + k - 1] = sub[k]

Positions(sub, s) == {i \in 1..Len(s) : IsPrefixAt(sub, s, i)}

Contains(s, sub) == sub = <<>> \/ Positions(sub, s) # {}

Occurrences(sub, s) == Cardinality(Positions(sub, s))

SetMin(S) == CHOOSE x \in S : \A y \in S : x <= y

(***************************************************************************)
(* MONGOWRAPPER_CONSTANTS (./constants/constants of the databaseManager).  *)
(***************************************************************************)
MONGOSERVER == <<"m","o","n","g","o","d","b",":","/","/">>
MONGOSERVER_SVR == <<"m","o","n","g","o","d","b","+","s","r","v",":","/","/">>
COLON == <<":">>
AT == <<"@">>
SLASH == <<"/">>
AND == <<"&">>
EQUAL_SIGN == <<"=">>
BEGINNING_STRING == <<"/","?">>
AUTH_SOURCE == <<"a","u","t","h","S","o","u","r","c","e">>
AUTH_MECHANISM == <<"a","u","t","h","M","e","c","h","a","n","i","s","m">>
AUTH_DEFAULT == <<"D","E","F","A","U","L","T">>
AUTH_SCRAM_256 == <<"S","C","R","A","M","-","S","H","A","-","2","5","6">>
AUTH_SCRAM_1 == <<"S","C","R","A","M","-","S","H","A","-","1">>
AUTH_TLS == <<"M","O","N","G","O","D","B","-","X","5","0","9">>

(***************************************************************************)
(* The constructor's derivation of this.connectionUri (lines 44-134).      *)
(***************************************************************************)
\* A variant that honours the complete URI only when no login database is given.
UsesExplicitUriUnlessLoginDb(o) ==
    /\ Truthy(o.connectionUri) /\ o.connectionUri.kind = "string"
    /\ ~Truthy(o.loginDatabase)

\* Line 45: the complete URI is used when it is a non-empty string.
UsesExplicitUri(o) == Truthy(o.connectionUri) /\ o.connectionUri.kind = "string"

\* Lines 56-60: scheme prefix followed by the encoded user name.
BasePart(o) ==
    (IF o.svrString THEN MONGOSERVER_SVR ELSE MONGOSERVER)
        \o encodeURIComponent(JsToString(o.username))

\* Lines 49, 63-65: the password, when truthy.
PasswordPart(o) ==
    IF Truthy(o.password)
    THEN COLON \o encodeURIComponent(JsToString(o.password))
    ELSE <<>>

\* A variant that tests authSource before loginDatabase.
AuthorityPartAuthSourceFirst(o) ==
    IF Truthy(o.authSource) /\ o.authSource # Str(<<>>)
    THEN AT \o JsToString(o.host) \o BEGINNING_STRING \o AUTH_SOURCE
            \o EQUAL_SIGN \o JsToString(o.authSource)
    ELSE IF Truthy(o.loginDatabase) /\ o.loginDatabase # Str(<<>>)
         THEN AT \o JsToString(o.host) \o SLASH \o JsToString(o.loginDatabase)
         ELSE <<>>

\* Lines 68-80: where the credentials are validated.
AuthorityPart(o) ==
    IF Truthy(o.loginDatabase) /\ o.loginDatabase # Str(<<>>)
    THEN AT \o JsToString(o.host) \o SLASH \o JsToString(o.loginDatabase)
    ELSE IF Truthy(o.authSource) /\ o.authSource # Str(<<>>)
         THEN AT \o JsToString(o.host) \o BEGINNING_STRING \o AUTH_SOURCE
                 \o EQUAL_SIGN \o JsToString(o.authSource)
         ELSE <<>>

\* Lines 92-106 and 125-130: one "&key=value" per entry, in key order.
RECURSIVE SerializeEntries(_, _)
SerializeEntries(es, encodeStrings) ==
    IF es = <<>> THEN <<>>
    ELSE LET e == Head(es)
             v == IF encodeStrings /\ e.val.kind = "string"
                  THEN encodeURIComponent(e.val.s)
                  ELSE JsToString(e.val)
         IN AND \o e.key \o EQUAL_SIGN \o v \o SerializeEntries(Tail(es), encodeStrings)

\* Lines 83-85: the "&authMechanism=" lead-in.
AuthMechanismPrefix == AND \o AUTH_MECHANISM \o EQUAL_SIGN

\* Lines 109-112: the mechanisms the wrapper passes through unchanged.
IsAcceptedMechanism(m) == m \in {AUTH_DEFAULT, AUTH_SCRAM_256, AUTH_SCRAM_1, AUTH_TLS}

\* Lines 82-120: the mechanism block. It appends to connectionUri and, in the
\* TLS branch, collects the TLS parameters in the local string clientOptions.
MechanismBlock(uri, o) ==
    IF Truthy(o.authMechanism)
    THEN IF o.tlsOptions.present
         THEN [uri |-> uri \o AuthMechanismPrefix
                           \o encodeURIComponent(JsToString(o.authMechanism)),
               clientOptions |-> SerializeEntries(o.tlsOptions.entries, TRUE)]
         ELSE IF IsAcceptedMechanism(JsToString(o.authMechanism))
              THEN [uri |-> uri \o AuthMechanismPrefix \o JsToString(o.authMechanism),
                    clientOptions |-> <<>>]
              ELSE [uri |-> uri \o AuthMechanismPrefix \o AUTH_DEFAULT,
                    clientOptions |-> <<>>]
    ELSE [uri |-> uri \o <<>>, clientOptions |-> <<>>]

\* A variant that appends the generic client options ahead of the collected string.
ClientOptionsBlockOptionsFirst(st, o) ==
    LET clientOptions ==
            IF o.clientOptions.present
            THEN SerializeEntries(o.clientOptions.entries, FALSE) \o st.clientOptions
            ELSE st.clientOptions
    IN st.uri \o clientOptions

\* Lines 122-133: the generic client options join the local string, which is
\* appended to connectionUri once.
ClientOptionsBlock(st, o) ==
    LET clientOptions ==
            IF o.clientOptions.present
            THEN st.clientOptions \o SerializeEntries(o.clientOptions.entries, FALSE)
            ELSE st.clientOptions
    IN st.uri \o clientOptions

\* Lines 44-134: the value of this.connectionUri when the constructor returns.
BuildConnectionUri(o) ==
    IF UsesExplicitUri(o)
    THEN o.connectionUri.s
    ELSE ClientOptionsBlock(
             MechanismBlock(BasePart(o) \o PasswordPart(o) \o AuthorityPart(o), o), o)

(***************************************************************************)
(* Constructor arguments explored by the model.                            *)
(***************************************************************************)
K_TLS == <<"t","l","s">>
K_TLS_CA_FILE == <<"t","l","s","C","A","F","i","l","e">>
K_W == <<"w">>

TlsEntries ==
    { [key |-> K_TLS, val |-> Bool(TRUE)],
      [key |-> K_TLS_CA_FILE, val |-> Str(<<"/","p">>)] }

ClientEntries ==
    { [key |-> K_W, val |-> Str(<<"1">>)],
      [key |-> AUTH_SOURCE, val |-> Str(<<"x">>)],
      [key |-> K_TLS, val |-> Bool(FALSE)] }

\* Object literals over the entries E: keys are distinct, order is insertion order.
EntryLists(E) ==
    { es \in UNION { [1..n -> E] : n \in 0..MaxOptKeys } :
        \A i, j \in 1..Len(es) : i # j => es[i].key # es[j].key }

Objects(E) == {NoObject} \cup { Object(es) : es \in EntryLists(E) }

Keys(obj) == { obj.entries[i].key : i \in 1..Len(obj.entries) }

HostName == <<"h",":","1">>
LoginDb == <<"d","b">>
AuthSrc == <<"a","s">>

AllOptions ==
    [ connectionUri : {Undef, Str(<<>>), Str(<<"x",":","/","e">>), Bool(TRUE)},
      username      : {Str(<<"u","@">>)},
      password      : {Undef, Str(<<>>), Str(<<"p",":">>)},
      host          : {Str(HostName)},
      loginDatabase : {Undef, Str(<<>>), Str(LoginDb)},
      authSource    : {Undef, Str(AuthSrc)},
      authMechanism : {Undef, Str(AUTH_SCRAM_1), Str(AUTH_TLS), Str(<<"x","=">>)},
      tlsOptions    : Objects(TlsEntries),
      svrString     : BOOLEAN,
      clientOptions : Objects(ClientEntries) ]

\* The handles whose lifecycle is explored: one derived URI and one explicit URI.
HandleOptions ==
    { o \in AllOptions :
        /\ o.connectionUri \in {Undef, Str(<<"x",":","/","e">>)}
        /\ o.password = Undef
        /\ o.loginDatabase = Str(LoginDb)
        /\ o.authSource = Undef
        /\ o.authMechanism = Undef
        /\ o.tlsOptions = NoObject
        /\ o.svrString = FALSE
        /\ o.clientOptions = NoObject }

(***************************************************************************)
(* State of one MongoManager and of the driver objects it holds.           *)
(***************************************************************************)
VARIABLES
    options,        \* the constructor's argument
    constructed,    \* the constructor has returned
    connectionUri,  \* this.connectionUri
    _client,        \* this._client: index into clients, 0 before construction
    _database,      \* this._database
    _collection,    \* this._collection
    clients,        \* the driver's MongoClient objects, in creation order
    closeCount,     \* closeConnection() calls made on this manager
    floating,       \* clients whose close() promise was dropped and is unsettled
    lost,           \* a dropped close() promise rejected with nobody awaiting it
    pc,             \* where the pending async call of the manager is suspended
    op              \* the latest call on the manager and how it ended

vars == << options, constructed, connectionUri, _client, _database, _collection,
           clients, closeCount, floating, lost, pc, op >>

DatabaseNames == {"a", "b"}
CollectionNames == {"c"}
ExtraParameters == { <<"&","r","=","1">>, <<"&","w","=","2">> }

\* undefined fields of the manager
NoDatabase == [set |-> FALSE, client |-> 0, name |-> ""]
NoCollection == [set |-> FALSE, database |-> NoDatabase, name |-> ""]

\* What the driver is asked and what it answers, in order, within one call.
Ev(kind, id) == [ev |-> kind, id |-> id]

Snapshot == [uri |-> connectionUri, client |-> _client]

NoOp ==
    [name |-> "none", arg |-> <<>>, result |-> "returned", cause |-> "none",
     calls |-> <<>>, pre |-> [uri |-> <<>>, client |-> 0]]

StartOp(name, arg, calls) ==
    [name |-> name, arg |-> arg, result |-> "pending", cause |-> "none",
     calls |-> calls, pre |-> Snapshot]

\* new MongoClient(uri) (lines 136, 210)
NewClient(uri) == [uri |-> uri, status |-> "created"]

InitWith(O) ==
    /\ options \in O
    /\ constructed = FALSE
    /\ connectionUri = <<>>
    /\ _client = 0
    /\ _database = NoDatabase
    /\ _collection = NoCollection
    /\ clients = <<>>
    /\ closeCount = 0
    /\ floating = {}
    /\ lost = FALSE
    /\ pc = "idle"
    /\ op = NoOp

\* constructor(options), lines 44-137
Constructor ==
    /\ ~constructed
    /\ constructed' = TRUE
    /\ connectionUri' = BuildConnectionUri(options)
    /\ clients' = << NewClient(connectionUri') >>
    /\ _client' = 1
    /\ op' = [StartOp("constructor", <<>>, << Ev("new", 1) >>) EXCEPT !.result = "returned"]
    /\ UNCHANGED << options, _database, _collection, closeCount, floating, lost, pc >>

InitBuild == InitWith(AllOptions)
NextBuild == Constructor
SpecBuild == InitBuild /\ [][NextBuild]_vars

(***************************************************************************)
(* Properties of the derived connection string (checked under SpecBuild).  *)
(***************************************************************************)
Param(k) == AND \o k \o EQUAL_SIGN
FirstPos(sub, s) == SetMin(Positions(sub, s))
HasLoginDatabase(o) == o.loginDatabase.kind = "string" /\ o.loginDatabase.s # <<>>
HasAuthSource(o) == o.authSource.kind = "string" /\ o.authSource.s # <<>>
HasExplicitUri(o) == o.connectionUri.kind = "string" /\ o.connectionUri.s # <<>>
DisjointKeys(o) == Keys(o.tlsOptions) \cap Keys(o.clientOptions) = {}

\* C6: a config whose connectionUri is a non-empty string yields exactly that
\* string as connectionUri (and as the URI of the client), whatever the other
\* fields are.
C6_ExplicitUriVerbatim ==
    (constructed /\ HasExplicitUri(options)) =>
        /\ connectionUri = options.connectionUri.s
        /\ clients[_client].uri = options.connectionUri.s

C6_Witness ==
    /\ constructed /\ HasExplicitUri(options)
    /\ HasLoginDatabase(options) /\ HasAuthSource(options)
    /\ Truthy(options.authMechanism) /\ options.svrString
    /\ options.tlsOptions.entries # <<>> /\ options.clientOptions.entries # <<>>
    /\ Truthy(options.password)

\* C7: without connectionUri, loginDatabase and authSource, the derived URI
\* still carries "@" followed by the host after the credentials.
C7_HostIncorporated ==
    (constructed /\ ~HasExplicitUri(options)
        /\ ~HasLoginDatabase(options) /\ ~HasAuthSource(options)) =>
        Contains(connectionUri, AT \o JsToString(options.host))

InInsertionOrder(obj, u) ==
    \A i, j \in 1..Len(obj.entries) :
        i < j => FirstPos(Param(obj.entries[i].key), u) < FirstPos(Param(obj.entries[j].key), u)

C9_LoginDatabaseNoAuthSource ==
    (constructed /\ ~HasExplicitUri(options) /\ HasLoginDatabase(options)) =>
        /\ Contains(connectionUri,
                    AT \o JsToString(options.host) \o SLASH \o options.loginDatabase.s)
        /\ ~Contains(connectionUri, AUTH_SOURCE \o EQUAL_SIGN)

\* C9 as amended: with a non-empty loginDatabase and no connectionUri, the URI
\* contains "@" host "/" loginDatabase, the authSource field has no effect on
\* the URI, and "authSource=" occurs only when clientOptions has that key.
C9_LoginDatabaseIgnoresAuthSource ==
    (constructed /\ ~HasExplicitUri(options) /\ HasLoginDatabase(options)) =>
        /\ Contains(connectionUri,
                    AT \o JsToString(options.host) \o SLASH \o options.loginDatabase.s)
        /\ connectionUri = BuildConnectionUri([options EXCEPT !.authSource = Undef])
        /\ Contains(connectionUri, AUTH_SOURCE \o EQUAL_SIGN)
              <=> AUTH_SOURCE \in Keys(options.clientOptions)

C9_Witness ==
    /\ constructed /\ ~HasExplicitUri(options) /\ HasLoginDatabase(options)
    /\ HasAuthSource(options)
    /\ Truthy(options.authMechanism) /\ options.tlsOptions.entries # <<>>
    /\ options.clientOptions.entries # <<>>
    /\ ~Contains(connectionUri, AUTH_SOURCE \o EQUAL_SIGN)

(***************************************************************************)
(* The lifecycle wrapper (lines 143-227).  The driver is the environment:  *)
(* each of its calls either returns/resolves or throws/rejects, and the    *)
(* wrapper itself keeps no record of being opened or closed.  One call on  *)
(* the manager is in progress at a time; an async method is suspended at   *)
(* each await until the driver settles the promise.                        *)
(***************************************************************************)
Idle == constructed /\ pc = "idle"

Finish(o, result, cause, more) ==
    [o EXCEPT !.result = result, !.cause = cause, !.calls = o.calls \o more]

\* connect(), lines 143-145: the call of this._client.connect().
ConnectCall ==
    /\ Idle
    /\ pc' = "connect"
    /\ op' = StartOp("connect", <<>>, << Ev("connect", _client) >>)
    /\ UNCHANGED << options, constructed, connectionUri, _client, _database,
                    _collection, clients, closeCount, floating, lost >>

\* connect(), lines 145-151: the driver's promise settles; a rejection goes
\* through errorMessage (lines 158-160) and leaves connect() rejected.
ConnectSettled(ok) ==
    /\ pc = "connect"
    /\ pc' = "idle"
    /\ IF ok
       THEN /\ clients' = [clients EXCEPT ![_client].status = "connected"]
            /\ op' = Finish(op, "returned", "none", << Ev("connectResolved", _client) >>)
       ELSE /\ clients' = clients
            /\ op' = Finish(op, "threw", "driver", << Ev("connectRejected", _client) >>)
    /\ UNCHANGED << options, constructed, connectionUri, _client, _database,
                    _collection, closeCount, floating, lost >>

\* A variant that clears this._database before asking the driver.
SetDatabaseClearingFirst(databaseName, ok) ==
    /\ Idle
    /\ LET o == StartOp("setDatabase", databaseName, << Ev("db", _client) >>)
       IN IF ok
          THEN /\ _database' = [set |-> TRUE, client |-> _client, name |-> databaseName]
               /\ op' = Finish(o, "returned", "none", <<>>)
          ELSE /\ _database' = NoDatabase
               /\ op' = Finish(o, "threw", "driver", << Ev("dbThrew", _client) >>)
    /\ UNCHANGED << options, constructed, connectionUri, _client, _collection,
                    clients, closeCount, floating, lost, pc >>

\* set database(databaseName), lines 181-188.
SetDatabase(databaseName, ok) ==
    /\ Idle
    /\ LET o == StartOp("setDatabase", databaseName, << Ev("db", _client) >>)
       IN IF ok
          THEN /\ _database' = [set |-> TRUE, client |-> _client, name |-> databaseName]
               /\ op' = Finish(o, "returned", "none", <<>>)
          ELSE /\ _database' = _database
               /\ op' = Finish(o, "threw", "driver", << Ev("dbThrew", _client) >>)
    /\ UNCHANGED << options, constructed, connectionUri, _client, _collection,
                    clients, closeCount, floating, lost, pc >>

\* A variant that asks the client for the collection when no database is set.
SetCollectionViaClient(collectionName, ok) ==
    /\ Idle
    /\ LET o == StartOp("setCollection", collectionName, << Ev("collection", _client) >>)
       IN IF ok
          THEN /\ _collection' = [set |-> TRUE, database |-> _database,
                                  name |-> collectionName]
               /\ op' = Finish(o, "returned", "none", <<>>)
          ELSE /\ _collection' = _collection
               /\ op' = Finish(o, "threw", "driver", << Ev("collectionThrew", _client) >>)
    /\ UNCHANGED << options, constructed, connectionUri, _client, _database,
                    clients, closeCount, floating, lost, pc >>

\* set collection(collectionName), lines 190-197.  With this._database
\* undefined the member access throws a TypeError before any driver call.
SetCollection(collectionName, ok) ==
    /\ Idle
    /\ IF ~_database.set
       THEN /\ _collection' = _collection
            /\ op' = Finish(StartOp("setCollection", collectionName, <<>>),
                            "threw", "TypeError", <<>>)
       ELSE LET o == StartOp("setCollection", collectionName,
                             << Ev("collection", _database.client) >>)
            IN IF ok
               THEN /\ _collection' = [set |-> TRUE, database |-> _database,
                                       name |-> collectionName]
                    /\ op' = Finish(o, "returned", "none", <<>>)
               ELSE /\ _collection' = _collection
                    /\ op' = Finish(o, "threw", "driver",
                                    << Ev("collectionThrew", _database.client) >>)
    /\ UNCHANGED << options, constructed, connectionUri, _client, _database,
                    clients, closeCount, floating, lost, pc >>

\* A variant that refuses a second close instead of forwarding it.
CloseConnectionOnce ==
    /\ Idle
    /\ closeCount < MaxCloseCalls
    /\ closeCount' = closeCount + 1
    /\ IF closeCount = 0
       THEN /\ floating' = floating \cup {_client}
            /\ op' = Finish(StartOp("closeConnection", <<>>, << Ev("close", _client) >>),
                            "returned", "none", <<>>)
       ELSE /\ floating' = floating
            /\ op' = Finish(StartOp("closeConnection", <<>>, <<>>), "threw", "closed", <<>>)
    /\ UNCHANGED << options, constructed, connectionUri, _client, _database,
                    _collection, clients, lost, pc >>

\* closeConnection(), lines 225-227: the driver's close() is called and its
\* promise is neither awaited nor returned.
CloseConnection ==
    /\ Idle
    /\ closeCount < MaxCloseCalls
    /\ closeCount' = closeCount + 1
    /\ floating' = floating \cup {_client}
    /\ op' = Finish(StartOp("closeConnection", <<>>, << Ev("close", _client) >>),
                    "returned", "none", <<>>)
    /\ UNCHANGED << options, constructed, connectionUri, _client, _database,
                    _collection, clients, lost, pc >>

\* The driver settles a close() promise that closeConnection dropped.
DroppedCloseSettled(c, ok) ==
    /\ c \in floating
    /\ floating' = floating \ {c}
    /\ IF ok
       THEN /\ clients' = [clients EXCEPT ![c].status = "closed"]
            /\ lost' = lost
       ELSE /\ clients' = clients
            /\ lost' = TRUE
    /\ UNCHANGED << options, constructed, connectionUri, _client, _database,
                    _collection, closeCount, pc, op >>

\* line 209: this.connectionUri += options
AppendParameters(uri, extra) == uri \o extra

\* updateConnectionString(options), lines 205-207: the call of close().
UpdateCall(extra) ==
    /\ Idle
    /\ Len(clients) < MaxClients
    /\ pc' = "update_close"
    /\ op' = StartOp("updateConnectionString", extra, << Ev("close", _client) >>)
    /\ UNCHANGED << options, constructed, connectionUri, _client, _database,
                    _collection, clients, closeCount, floating, lost >>

\* A variant that creates the new client before the URI is extended.
UpdateCloseSettledClientFirst(ok) ==
    /\ pc = "update_close"
    /\ IF ok
       THEN LET uri == AppendParameters(connectionUri, op.arg)
                new == Len(clients) + 1
            IN /\ connectionUri' = uri
               /\ clients' = Append([clients EXCEPT ![_client].status = "closed"],
                                    NewClient(connectionUri))
               /\ _client' = new
               /\ pc' = "update_connect"
               /\ op' = [op EXCEPT !.calls = op.calls \o
                           << Ev("closeResolved", _client), Ev("new", new),
                              Ev("connect", new) >>]
       ELSE /\ pc' = "idle"
            /\ op' = Finish(op, "threw", "driver", << Ev("closeRejected", _client) >>)
            /\ UNCHANGED << connectionUri, clients, _client >>
    /\ UNCHANGED << options, constructed, _database, _collection, closeCount,
                    floating, lost >>

\* updateConnectionString, lines 207-211: close() settles; on success the URI
\* grows, a new client replaces the old one and connect() is called on it.
UpdateCloseSettled(ok) ==
    /\ pc = "update_close"
    /\ IF ok
       THEN LET uri == AppendParameters(connectionUri, op.arg)
                new == Len(clients) + 1
            IN /\ connectionUri' = uri
               /\ clients' = Append([clients EXCEPT ![_client].status = "closed"],
                                    NewClient(uri))
               /\ _client' = new
               /\ pc' = "update_connect"
               /\ op' = [op EXCEPT !.calls = op.calls \o
                           << Ev("closeResolved", _client), Ev("new", new),
                              Ev("connect", new) >>]
       ELSE /\ pc' = "idle"
            /\ op' = Finish(op, "threw", "driver", << Ev("closeRejected", _client) >>)
            /\ UNCHANGED << connectionUri, clients, _client >>
    /\ UNCHANGED << options, constructed, _database, _collection, closeCount,
                    floating, lost >>

\* updateConnectionString, lines 211-217: the inner connect() settles.
UpdateConnectSettled(ok) ==
    /\ pc = "update_connect"
    /\ pc' = "idle"
    /\ IF ok
       THEN /\ clients' = [clients EXCEPT ![_client].status = "connected"]
            /\ op' = Finish(op, "returned", "none", << Ev("connectResolved", _client) >>)
       ELSE /\ clients' = clients
            /\ op' = Finish(op, "threw", "driver", << Ev("connectRejected", _client) >>)
    /\ UNCHANGED << options, constructed, connectionUri, _client, _database,
                    _collection, closeCount, floating, lost >>

Init == InitWith(HandleOptions)

Next ==
    \/ Constructor
    \/ ConnectCall
    \/ \E ok \in BOOLEAN : ConnectSettled(ok)
    \/ \E n \in DatabaseNames, ok \in BOOLEAN : SetDatabase(n, ok)
    \/ \E n \in CollectionNames, ok \in BOOLEAN : SetCollection(n, ok)
    \/ CloseConnection
    \/ \E c \in 1..MaxClients, ok \in BOOLEAN : DroppedCloseSettled(c, ok)
    \/ \E e \in ExtraParameters : UpdateCall(e)
    \/ \E ok \in BOOLEAN : UpdateCloseSettled(ok)
    \/ \E ok \in BOOLEAN : UpdateConnectSettled(ok)

Spec == Init /\ [][Next]_vars

(***************************************************************************)
(* Properties of the lifecycle wrapper (checked under Spec).               *)
(***************************************************************************)
Status(c) == clients[c].status
Events(kind) == { i \in 1..Len(op.calls) : op.calls[i].ev = kind }
DriverFailed ==
    Events("connectRejected") \cup Events("closeRejected")
        \cup Events("dbThrew") \cup Events("collectionThrew") # {}

\* A step in which the named method runs (or, for an async method, resumes).
StepOf(name) == op' # op /\ op'.name = name

\* C1 as stated: a closeConnection() made after an earlier closeConnection() on
\* the same manager fails and does not reach the driver's close().
C1_SecondCloseFails ==
    (op.name = "closeConnection" /\ closeCount >= 2) =>
        (op.result = "threw" /\ Events("close") = {})

\* C1 as amended: every closeConnection(), the second included, returns
\* normally after forwarding close() to the driver's current client.
C1_EveryCloseForwarded ==
    (op.name = "closeConnection") =>
        /\ op.result = "returned"
        /\ op.calls = << Ev("close", _client) >>

C1_Witness ==
    /\ op.name = "closeConnection" /\ closeCount = 2
    /\ op.calls = << Ev("close", _client) >>
    /\ Status(_client) = "closed"

\* C2 as stated: the database setter, called while the current client is not
\* connected (never opened, or closed), fails and leaves this._database as it was.
C2_SelectDatabaseOnlyWhenOpen ==
    [][ (StepOf("setDatabase") /\ Status(_client) # "connected") =>
            (op'.result = "threw" /\ _database' = _database) ]_vars

\* C2 as amended: the database setter asks the driver in every lifecycle state;
\* it fails exactly when the driver's db() throws and then leaves this._database
\* as it was, and otherwise this._database becomes the database it was given.
C2_SelectDatabaseFollowsDriver ==
    [][ StepOf("setDatabase") =>
            /\ op'.calls # <<>> /\ Head(op'.calls) = Ev("db", _client)
            /\ op'.result = "threw" <=> Events("dbThrew")' # {}
            /\ op'.result = "threw" => _database' = _database
            /\ op'.result = "returned" =>
                 _database' = [set |-> TRUE, client |-> _client, name |-> op'.arg] ]_vars

C2_Witness ==
    /\ op.name = "setDatabase" /\ op.result = "threw"
    /\ Status(_client) = "closed" /\ closeCount > 0
    /\ _database.set /\ _database.client = _client

\* C3: the collection setter, called while this._database is undefined, fails
\* on the missing database, leaves this._collection undefined and makes no
\* driver call.
C3_SelectCollectionNeedsDatabase ==
    (op.name = "setCollection" /\ ~_database.set) =>
        /\ op.result = "threw" /\ op.cause = "TypeError"
        /\ op.calls = <<>>
        /\ ~_collection.set

C3_Witness ==
    /\ op.name = "setCollection" /\ ~_database.set
    /\ op.result = "threw" /\ Status(_client) = "connected"

\* C4: updateConnectionString closes the current client, then extends the URI,
\* then creates and connects a new client; no client is created while the
\* close is pending, and on success connectionUri is the previous URI followed
\* by the argument and the current client is the connected one created on it.
C4_ReopenOrder ==
    /\ (pc = "update_close") =>
          /\ op.calls = << Ev("close", _client) >>
          /\ _client = op.pre.client /\ connectionUri = op.pre.uri
    /\ (pc = "update_connect") =>
          /\ Status(op.pre.client) = "closed"
          /\ Status(_client) = "created"
    /\ (op.name = "updateConnectionString" /\ op.result = "returned") =>
          /\ connectionUri = op.pre.uri \o op.arg
          /\ _client # op.pre.client
          /\ clients[_client].uri = connectionUri
          /\ Status(_client) = "connected"
          /\ Status(op.pre.client) = "closed"
          /\ op.calls = << Ev("close", op.pre.client), Ev("closeResolved", op.pre.client),
                           Ev("new", _client), Ev("connect", _client),
                           Ev("connectResolved", _client) >>

C4_Witness ==
    /\ op.name = "updateConnectionString" /\ op.result = "returned"
    /\ _client = 2 /\ connectionUri = clients[1].uri \o op.arg
    /\ op.arg # <<>>

\* C5: every failure the driver reports is seen by the caller of the method
\* that made the driver call, and connect is attempted once.
C5_NoDriverFailureSwallowed ==
    /\ ~lost
    /\ (pc = "idle" /\ DriverFailed) => (op.result = "threw" /\ op.cause = "driver")
    /\ Cardinality(Events("connect")) <= 1

\* C10: the selected collection was obtained from the selected database, and
\* the selected database from the current client.
C10_SelectionsBelongTogether ==
    (constructed /\ pc = "idle") =>
        /\ _collection.set => _collection.database = _database
        /\ _database.set => _database.client = _client

====
